---- MODULE Spec2Model ----
(***************************************************************************)
(* Candle cache and freshness predicate of StockThemes.                    *)
(*                                                                         *)
(* Instants are whole minutes of local time counted from a Monday 00:00    *)
(* (the local zone has a fixed offset, so local and UTC instants order the *)
(* same way).  Day 0 is a Monday; Weekday 5 and 6 are Saturday and Sunday. *)
(***************************************************************************)
EXTENDS Integers, Sequences, FiniteSets, TLC

VARIABLES
    now,          \* the wall clock (Local::now() / Utc::now())
    market_hours, \* APP_CONFIG.market_hours = <<market_open, market_close>>, minutes of the day
    store,        \* the daily_candles table: a set of rows [ticker, ds, close, last_updated]
    last,         \* observation of the latest fetch_candles call (repeat: it directly
                  \* follows a successful stale-path call made at the same instant)
    settled,      \* <<ticker, ds>> of the rows that a successful call found with their session closed
    time,         \* argument of the latest is_upto_date evaluation
    fresh,        \* its result: "none" before the evaluation, then "true" / "false"
    performance,  \* the performance table: rows keyed by (ticker, ticker_type)
    perf,         \* observation of the latest fetch_stock_perf call
    bulk,         \* fetch_stock_info: its input, the stock-info store, the loop's position and errors
    many,         \* fetch_candles_many: its arguments, the stream's position, the fetches in flight, the map
    rrg,          \* rrg_handler: what its two fetch_candles calls returned, its query and its response
    avg,          \* sma: its arguments and, once applied, its result
    weekly,       \* to_weekly: its candles and, once applied, its period closes
    joined,       \* align: its two period series and, once applied, the three sequences
    ranked,       \* ranking by relative strength: the rows, the benchmark and the sorted rows
    race,         \* two concurrent fetch_candles calls on one ticker: each call's position and locals
    single,       \* Store::load_store: the static's lock and weak reference, the instances, the callers
    crumb,        \* one YFinance client: the crumb cell and the requests of its callers
    chart         \* YFinance::fetch_candles: the instant, the TimeSpec, the server's answer, the result

vars == <<now, market_hours, store, last, settled, time, fresh,
          performance, perf, bulk, many, rrg, avg,
          weekly, joined, ranked, race, single, crumb, chart>>

\* the variables of the operations that neither the candle cache nor the
\* freshness predicate touches
laterVars == <<performance, perf, bulk, many, rrg, avg,
               weekly, joined, ranked, race, single, crumb, chart>>

\* the variables of the operations modelled last
restVars == <<weekly, joined, ranked, race, single, crumb, chart>>

----------------------------------------------------------------------------
(* Calendar arithmetic (chrono: weekday(), time(), date_naive(), and_time) *)

MinutesPerDay == 24 * 60

Hm(h, m) == h * 60 + m

At(day, tod) == day * MinutesPerDay + tod

DateOf(t) == t \div MinutesPerDay

TimeOfDay(t) == t % MinutesPerDay

Weekday(day) == day % 7

IsWeekend(day) == Weekday(day) \in {5, 6}

----------------------------------------------------------------------------
(* util.rs: is_upto_date                                                   *)

\* faulty variant of IsMarketOpen: the opening instant itself does not count as open
IsMarketOpenAfterOpen(n, hours) ==
    /\ ~IsWeekend(DateOf(n))
    /\ TimeOfDay(n) > hours[1]
    /\ TimeOfDay(n) < hours[2]

\* faulty variant of IsMarketOpen: the weekend is not excluded
IsMarketOpenAnyDay(n, hours) ==
    /\ TimeOfDay(n) >= hours[1]
    /\ TimeOfDay(n) < hours[2]

IsMarketOpen(n, hours) ==
    /\ ~IsWeekend(DateOf(n))
    /\ TimeOfDay(n) >= hours[1]
    /\ TimeOfDay(n) < hours[2]

RECURSIVE WalkBackAnyDay(_, _, _)
\* faulty variant of WalkBack: Saturday and Sunday are candidates like any other day
WalkBackAnyDay(candidate, n, hours) ==
    IF At(candidate, hours[2]) <= n
    THEN At(candidate, hours[2])
    ELSE WalkBackAnyDay(candidate - 1, n, hours)

RECURSIVE WalkBack(_, _, _)
\* the loop of last_market_close: candidate is a calendar date
WalkBack(candidate, n, hours) ==
    IF IsWeekend(candidate)
    THEN WalkBack(candidate - 1, n, hours)
    ELSE IF At(candidate, hours[2]) <= n
         THEN At(candidate, hours[2])
         ELSE WalkBack(candidate - 1, n, hours)

RECURSIVE WalkedDatesPastFriday(_, _, _)
\* faulty variant of WalkedDates: Friday is passed over like Saturday and Sunday
WalkedDatesPastFriday(candidate, n, hours) ==
    IF Weekday(candidate) >= 4
    THEN <<candidate>> \o WalkedDatesPastFriday(candidate - 1, n, hours)
    ELSE IF At(candidate, hours[2]) <= n
         THEN <<candidate>>
         ELSE <<candidate>> \o WalkedDatesPastFriday(candidate - 1, n, hours)

RECURSIVE WalkedDates(_, _, _)
\* the calendar dates the loop of last_market_close examines, in order
WalkedDates(candidate, n, hours) ==
    IF IsWeekend(candidate)
    THEN <<candidate>> \o WalkedDates(candidate - 1, n, hours)
    ELSE IF At(candidate, hours[2]) <= n
         THEN <<candidate>>
         ELSE <<candidate>> \o WalkedDates(candidate - 1, n, hours)

\* faulty variant of LastMarketClose: today's close is taken even when it is still ahead
LastMarketCloseToday(n, hours) ==
    IF IsWeekend(DateOf(n))
    THEN WalkBack(DateOf(n), n, hours)
    ELSE At(DateOf(n), hours[2])

LastMarketClose(n, hours) == WalkBack(DateOf(n), n, hours)

IsUptoDate(t, n, hours) ==
    IF IsMarketOpen(n, hours)
    THEN FALSE
    ELSE t >= LastMarketClose(n, hours)

----------------------------------------------------------------------------
(* store.rs: the daily_candles table, primary key (ticker, ds)             *)

TwoYears == 2 * 365 * MinutesPerDay

OneDay == MinutesPerDay

RECURSIVE SortAsc(_)
\* ORDER BY ds ASC over records that carry a timestamp
SortAsc(S) ==
    IF S = {} THEN <<>>
    ELSE LET m == CHOOSE x \in S : \A y \in S : x.timestamp <= y.timestamp
         IN <<m>> \o SortAsc(S \ {m})

AsCandle(row) ==
    [timestamp |-> row.ds, close |-> row.close, last_updated |-> row.last_updated]

Reverse(seq) == [i \in 1..Len(seq) |-> seq[Len(seq) + 1 - i]]

\* faulty variant of GetCandles: the rows come back newest first (ORDER BY ds DESC)
GetCandlesNewestFirst(st, ticker, n) ==
    Reverse(SortAsc({ AsCandle(row) : row \in { r \in st : r.ticker = ticker /\ r.ds >= n - TwoYears } }))

GetCandles(st, ticker, n) ==
    SortAsc({ AsCandle(row) : row \in { r \in st : r.ticker = ticker /\ r.ds >= n - TwoYears } })

\* faulty variant of Upsert: ON CONFLICT DO NOTHING keeps the stored row
UpsertKeepOld(st, ticker, c) ==
    IF \E r \in st : r.ticker = ticker /\ r.ds = c.timestamp
    THEN st
    ELSE st \cup {[ticker |-> ticker, ds |-> c.timestamp, close |-> c.close,
                   last_updated |-> c.last_updated]}

\* INSERT ... ON CONFLICT(ticker, ds) DO UPDATE SET ... = excluded....
Upsert(st, ticker, c) ==
    { r \in st : ~(r.ticker = ticker /\ r.ds = c.timestamp) }
        \cup {[ticker |-> ticker, ds |-> c.timestamp, close |-> c.close,
               last_updated |-> c.last_updated]}

RECURSIVE UpsertAll(_, _, _)
UpsertAll(st, ticker, candles) ==
    IF candles = <<>> THEN st
    ELSE UpsertAll(Upsert(st, ticker, Head(candles)), ticker, Tail(candles))

\* faulty variant of SaveCandles: the ticker's rows are replaced by the slice (DELETE, then INSERT)
SaveCandlesReplace(st, ticker, candles) ==
    UpsertAll({ r \in st : r.ticker # ticker }, ticker, candles)

\* one transaction, the candles written in slice order
SaveCandles(st, ticker, candles) == UpsertAll(st, ticker, candles)

----------------------------------------------------------------------------
(* Bounds of the candle-cache specification                                *)

StartDay == 4

HistoryDays == 1

HorizonDays == 3

MaxNulls == 1

----------------------------------------------------------------------------
(* yf.rs: the provider.  The exchange's session is the configured market   *)
(* hours; a daily bar is stamped with its session's open, carries the      *)
(* provisional close while the session runs and the final close after it.  *)

\* the first calendar day the server has a bar for
FirstBarDay == StartDay - HistoryDays

ChartBars(n, hours) ==
    { [timestamp |-> At(d, hours[1]),
       close |-> IF At(d, hours[2]) <= n THEN "final" ELSE "provisional"] :
        d \in { e \in FirstBarDay..DateOf(n) : ~IsWeekend(e) /\ At(e, hours[1]) <= n } }

\* Candle.last_updated: the instant the candle was fetched
Stamp(bar, n) ==
    [timestamp |-> bar.timestamp, close |-> bar.close, last_updated |-> n]

RangeSpec == [kind |-> "range", range |-> "2y"]

IntervalSpec(start, end) == [kind |-> "interval", start |-> start, end |-> end]

\* faulty variant of InInterval: the window is half-open
InIntervalHalfOpen(c, start, end) == c.timestamp >= start /\ c.timestamp < end

\* the filter applied to an explicit interval
InInterval(c, start, end) == c.timestamp >= start /\ c.timestamp <= end

\* faulty variant of YfFetchCandles: a failed request is turned into an empty answer
YfFetchCandlesSwallow(symbol, spec, n, hours, resp) ==
    [ok |-> TRUE, candles |-> <<>>]

\* resp is the server's answer: resp.ok = FALSE is a transport / chart error,
\* resp.nulls the timestamps whose quote fields came back null (filter_map drops them)
YfFetchCandles(symbol, spec, n, hours, resp) ==
    IF ~resp.ok
    THEN [ok |-> FALSE, candles |-> <<>>]
    ELSE LET parsed == { Stamp(b, n) : b \in { x \in ChartBars(n, hours) : x.timestamp \notin resp.nulls } }
             kept == IF spec.kind = "interval"
                     THEN { c \in parsed : InInterval(c, spec.start, spec.end) }
                     ELSE { c \in parsed : c.timestamp >= n - TwoYears }
         IN [ok |-> TRUE, candles |-> SortAsc(kept)]

----------------------------------------------------------------------------
(* lib.rs: fetch_candles (the spec's ensure_candles)                       *)

Front(s) == SubSeq(s, 1, Len(s) - 1)

Outcome(path, ok, ret, requests, delta, st) ==
    [path |-> path, ok |-> ok, ret |-> ret, requests |-> requests,
     delta |-> delta, store |-> st]

\* faulty variant of RefetchStart: the refetch begins at the latest remaining bar
RefetchStartAtLatest(remaining, n) ==
    IF remaining # <<>>
    THEN remaining[Len(remaining)].timestamp
    ELSE n - TwoYears

RefetchStart(remaining, n) ==
    IF remaining # <<>>
    THEN remaining[Len(remaining)].timestamp - OneDay
    ELSE n - TwoYears

\* faulty variant of StalePath: the merged candles are returned, not the re-read store
StalePathReturnsMerged(st, ticker, candles, n, hours, resp) ==
    LET remaining == Front(candles)
        spec == IntervalSpec(RefetchStart(remaining, n), n)
        r == YfFetchCandles(ticker, spec, n, hours, resp)
    IN IF ~r.ok
       THEN Outcome("stale", FALSE, <<>>, <<spec>>, <<>>, st)
       ELSE Outcome("stale", TRUE, remaining \o r.candles, <<spec>>, r.candles,
                    SaveCandles(st, ticker, remaining \o r.candles))

\* faulty variant of StalePath: the delta is written before the cached bars
StalePathCachedLast(st, ticker, candles, n, hours, resp) ==
    LET remaining == Front(candles)
        spec == IntervalSpec(RefetchStart(remaining, n), n)
        r == YfFetchCandles(ticker, spec, n, hours, resp)
    IN IF ~r.ok
       THEN Outcome("stale", FALSE, <<>>, <<spec>>, <<>>, st)
       ELSE LET saved == SaveCandles(st, ticker, r.candles \o remaining)
            IN Outcome("stale", TRUE, GetCandles(saved, ticker, n), <<spec>>, r.candles, saved)

StalePath(st, ticker, candles, n, hours, resp) ==
    LET remaining == Front(candles)
        spec == IntervalSpec(RefetchStart(remaining, n), n)
        r == YfFetchCandles(ticker, spec, n, hours, resp)
    IN IF ~r.ok
       THEN Outcome("stale", FALSE, <<>>, <<spec>>, <<>>, st)
       ELSE LET saved == SaveCandles(st, ticker, remaining \o r.candles)
            IN Outcome("stale", TRUE, GetCandles(saved, ticker, n), <<spec>>, r.candles, saved)

\* faulty variant of EmptyPath: the fetched candles are returned without being saved
EmptyPathNoSave(st, ticker, n, hours, resp) ==
    LET r == YfFetchCandles(ticker, RangeSpec, n, hours, resp)
    IN IF ~r.ok
       THEN Outcome("empty", FALSE, <<>>, <<RangeSpec>>, <<>>, st)
       ELSE Outcome("empty", TRUE, r.candles, <<RangeSpec>>, r.candles, st)

EmptyPath(st, ticker, n, hours, resp) ==
    LET r == YfFetchCandles(ticker, RangeSpec, n, hours, resp)
    IN IF ~r.ok
       THEN Outcome("empty", FALSE, <<>>, <<RangeSpec>>, <<>>, st)
       ELSE Outcome("empty", TRUE, r.candles, <<RangeSpec>>, r.candles,
                    SaveCandles(st, ticker, r.candles))

\* faulty variant of FetchCandles: the freshness test is skipped, every call refetches
FetchCandlesAlwaysRefetch(st, ticker, n, hours, resp) ==
    LET candles == GetCandles(st, ticker, n)
    IN IF candles = <<>>
       THEN EmptyPath(st, ticker, n, hours, resp)
       ELSE StalePath(st, ticker, candles, n, hours, resp)

FetchCandles(st, ticker, n, hours, resp) ==
    LET candles == GetCandles(st, ticker, n)
    IN IF candles = <<>>
       THEN EmptyPath(st, ticker, n, hours, resp)
       ELSE IF IsUptoDate(candles[Len(candles)].last_updated, n, hours)
            THEN Outcome("fresh", TRUE, candles, <<>>, <<>>, st)
            ELSE StalePath(st, ticker, candles, n, hours, resp)

----------------------------------------------------------------------------
(* The candle cache under a running clock                                  *)

NoCall == [path |-> "none"]

cacheVars == <<now, market_hours, store, last, settled, time, fresh>>

\* the candle cache and the clock, for the operations that do not use them
CacheIdle ==
    /\ now = 0
    /\ market_hours = <<Hm(9, 30), Hm(16, 0)>>
    /\ store = {}
    /\ last = NoCall
    /\ settled = {}
    /\ time = 0
    /\ fresh = "none"

\* before any of the operations modelled last has run
RestIdle ==
    /\ weekly = NoCall
    /\ joined = NoCall
    /\ ranked = NoCall
    /\ race = NoCall
    /\ single = NoCall
    /\ crumb = NoCall
    /\ chart = NoCall

\* the variables of the operations modelled between the cache and the last ones
midVars == <<performance, perf, bulk, many, rrg, avg>>

MidIdle ==
    /\ performance = {}
    /\ perf = NoCall
    /\ bulk = NoCall
    /\ many = NoCall
    /\ rrg = NoCall
    /\ avg = NoCall

\* before any of the later operations has run
LaterIdle ==
    /\ RestIdle
    /\ performance = {}
    /\ perf = NoCall
    /\ bulk = NoCall
    /\ many = NoCall
    /\ rrg = NoCall
    /\ avg = NoCall

\* the ticker under refresh, and another one whose rows are already stored
Ticker == "AAA"

OtherTicker == "QQQ"

ClockTimes == { Hm(10, 0), Hm(17, 0) }

ClockInstants == { At(d, tod) : d \in StartDay..(StartDay + HorizonDays), tod \in ClockTimes }

\* what the server may answer at instant n
Responses(n, hours) ==
    {[ok |-> FALSE, nulls |-> {}]} \cup
    { [ok |-> TRUE, nulls |-> z] :
        z \in { y \in SUBSET { b.timestamp : b \in ChartBars(n, hours) } : Cardinality(y) <= MaxNulls } }

\* the null rows of an answer that lie inside a window the call asked for
NullsAsked(requests, n, nulls) ==
    { ts \in nulls : \E i \in 1..Len(requests) :
        IF requests[i].kind = "interval"
        THEN requests[i].start <= ts /\ ts <= requests[i].end
        ELSE ts >= n - TwoYears }

SessionClose(ts, hours) == At(DateOf(ts), hours[2])

Init ==
    /\ now = At(StartDay, Hm(10, 0))
    /\ market_hours = <<Hm(9, 30), Hm(16, 0)>>
    /\ store = FetchCandles({}, OtherTicker, now, market_hours, [ok |-> TRUE, nulls |-> {}]).store
    /\ last = NoCall
    /\ settled = {}
    /\ time = 0
    /\ fresh = "none"
    /\ LaterIdle

\* the clock moves on to the next sampled instant
Tick ==
    /\ \E t \in ClockInstants :
          /\ t > now
          /\ \A u \in ClockInstants : u > now => t <= u
          /\ now' = t
    /\ UNCHANGED <<market_hours, store, last, settled, time, fresh>>
    /\ UNCHANGED laterVars

\* one whole call fetch_candles(store, yf, ticker)
EnsureCandles ==
    \E ticker \in {Ticker}, resp \in Responses(now, market_hours) :
      \E out \in {FetchCandles(store, ticker, now, market_hours, resp)} :
           /\ store' = out.store
           /\ last' = [path |-> out.path, ok |-> out.ok, ret |-> out.ret,
                       requests |-> out.requests, delta |-> out.delta,
                       ticker |-> ticker, at |-> now,
                       answered |-> (out.requests = <<>> \/ resp.ok),
                       nulls |-> NullsAsked(out.requests, now, resp.nulls),
                       before |-> store, settled |-> settled,
                       repeat |-> (last.path = "stale" /\ last.ok /\ last.at = now)]
           /\ settled' = IF out.ok
                         THEN settled \cup
                              { <<ticker, r.ds>> : r \in { x \in store : x.ticker = ticker
                                    /\ SessionClose(x.ds, market_hours) <= now } }
                         ELSE settled
           /\ UNCHANGED <<now, market_hours, time, fresh>>
           /\ UNCHANGED laterVars

Next == Tick \/ EnsureCandles

Spec == Init /\ [][Next]_vars

----------------------------------------------------------------------------
(* Claims about fetch_candles, read off the observation of the latest call *)

Called == last.path # "none"

RowsOf(st, ticker) == { r \in st : r.ticker = ticker }

\* the most recent bar the cache held when the call began
LatestRow(st, ticker) ==
    CHOOSE r \in RowsOf(st, ticker) : \A q \in RowsOf(st, ticker) : q.ds <= r.ds

Elems(seq) == { seq[i] : i \in 1..Len(seq) }

TimestampsOf(seq) == { seq[i].timestamp : i \in 1..Len(seq) }

StrictlyAscending(seq) ==
    \A i, j \in 1..Len(seq) : i < j => seq[i].timestamp < seq[j].timestamp

\* the claims' own reading of "within market hours on a weekday"
InMarketHours(n, hours) ==
    /\ Weekday(DateOf(n)) \in 0..4
    /\ hours[1] <= TimeOfDay(n)
    /\ TimeOfDay(n) < hours[2]

StaleOk == Called /\ last.path = "stale" /\ last.ok

\* C1 as stated: after a successful stale-path call the returned sequence has a
\* bar at the dropped bar's timestamp only if the delta has one, and the
\* previously cached bar is not part of the returned sequence.
C1_DroppedBarNeverReturned ==
    StaleOk =>
        LET dropped == AsCandle(LatestRow(last.before, last.ticker))
        IN /\ dropped.timestamp \in TimestampsOf(last.ret)
                => dropped.timestamp \in TimestampsOf(last.delta)
           /\ dropped.timestamp \notin TimestampsOf(last.delta)
                => dropped \notin Elems(last.ret)

\* C1 amended: the most recent cached bar is dropped in memory only.  The
\* returned sequence always has a bar at its timestamp: the delta's bar when the
\* delta has one there, and otherwise the previously cached bar, still stored.
C1_DroppedBarReplacedOrKept ==
    StaleOk =>
        LET dropped == AsCandle(LatestRow(last.before, last.ticker))
        IN \E c \in Elems(last.ret) :
              /\ c.timestamp = dropped.timestamp
              /\ IF dropped.timestamp \in TimestampsOf(last.delta)
                 THEN c \in Elems(last.delta)
                 ELSE c = dropped

C1_Witness ==
    /\ StaleOk
    /\ LatestRow(last.before, last.ticker).ds \notin TimestampsOf(last.delta)
    /\ last.delta # <<>>

\* C2: a call that finds at least one candle cached and the latest cached bar
\* fresh makes no provider call, leaves the store as it was and returns
\* exactly the cached candles.
C2_FreshCacheUntouched ==
    ( /\ Called
      /\ RowsOf(last.before, last.ticker) # {}
      /\ IsUptoDate(LatestRow(last.before, last.ticker).last_updated, last.at, market_hours) )
    => /\ last.requests = <<>>
       /\ store = last.before
       /\ last.ok
       /\ StrictlyAscending(last.ret)
       /\ Elems(last.ret) = { AsCandle(r) : r \in RowsOf(last.before, last.ticker) }

C2_Witness ==
    /\ Called
    /\ last.path = "fresh"
    /\ Len(last.ret) >= 2
    /\ ~InMarketHours(last.at, market_hours)

\* C3: a call that finds no candle cached makes exactly one provider fetch, for
\* the default two-year range; when it succeeds every fetched candle is stored
\* under the ticker, other tickers' rows are untouched, and the fetched
\* candles are returned.
C3_EmptyCacheFullFetch ==
    (Called /\ RowsOf(last.before, last.ticker) = {}) =>
        /\ last.requests = <<RangeSpec>>
        /\ last.ok =>
              /\ last.ret = last.delta
              /\ RowsOf(store, last.ticker) =
                    { [ticker |-> last.ticker, ds |-> c.timestamp, close |-> c.close,
                       last_updated |-> c.last_updated] : c \in Elems(last.delta) }
              /\ store \ RowsOf(store, last.ticker) = last.before

C3_Witness ==
    /\ Called
    /\ last.path = "empty"
    /\ last.ok
    /\ Len(last.delta) >= 2
    /\ last.before # {}

C5_SecondCallFresh ==
    (Called /\ last.repeat /\ ~InMarketHours(last.at, market_hours)) =>
        last.path = "fresh" /\ last.requests = <<>>

\* C5 amended: the same, provided the first call's delta reached the latest
\* stored bar, i.e. had a bar at or after the timestamp of the bar it dropped,
\* so that the latest stored bar was stamped by the first call.
C5_SecondCallFreshWhenRestamped ==
    ( /\ Called
      /\ last.repeat
      /\ ~InMarketHours(last.at, market_hours)
      /\ LatestRow(last.before, last.ticker).last_updated = last.at )
    => last.path = "fresh" /\ last.requests = <<>>

C5_Witness ==
    /\ Called
    /\ last.repeat
    /\ ~InMarketHours(last.at, market_hours)
    /\ last.path = "fresh"

\* C6: no call removes a (ticker, timestamp) key from the store.
C6_KeysNeverLost ==
    Called => \A r \in last.before : \E q \in store : q.ticker = r.ticker /\ q.ds = r.ds

C6_Witness ==
    /\ StaleOk
    /\ store # last.before
    /\ LatestRow(last.before, last.ticker).ds \notin TimestampsOf(last.delta)

\* C7: every sequence a call returns has strictly increasing, hence pairwise
\* distinct, timestamps.
C7_ReturnedAscending ==
    (Called /\ last.ok) => StrictlyAscending(last.ret)

C7_Witness ==
    /\ StaleOk
    /\ Len(last.ret) >= 3
    /\ \E c \in Elems(last.delta) :
          \E r \in RowsOf(last.before, last.ticker) : r.ds = c.timestamp

\* C8: when the provider fails, on the empty and on the stale path, the call
\* returns the error and the store is exactly what it was before the call.
C8_ProviderFailurePropagates ==
    (Called /\ ~last.answered) =>
        /\ ~last.ok
        /\ store = last.before

C8_Witness ==
    /\ Called
    /\ last.path = "stale"
    /\ ~last.answered
    /\ ~last.ok
    /\ RowsOf(store, last.ticker) # {}

----------------------------------------------------------------------------
(* Bounds of the freshness specification                                   *)

MaxDay == 8

\* times of day the clock and the arguments are sampled at: around the two
\* configured opens and closes, and the instants the examples name
SampleTimes ==
    { Hm(0, 0), Hm(6, 30), Hm(9, 29), Hm(9, 30), Hm(10, 0), Hm(11, 0),
      Hm(15, 59), Hm(16, 0), Hm(16, 5), Hm(17, 0), Hm(23, 59) }

Configs == { <<Hm(9, 30), Hm(16, 0)>>, <<Hm(6, 30), Hm(11, 0)>> }

Instants(firstDay, lastDay) ==
    { At(d, tod) : d \in firstDay..lastDay, tod \in SampleTimes }

InitFresh ==
    /\ now \in Instants(0, MaxDay)
    /\ market_hours \in Configs
    /\ time \in Instants(-4, MaxDay + 1)
    /\ fresh = "none"
    /\ store = {}
    /\ last = NoCall
    /\ settled = {}
    /\ LaterIdle

\* one evaluation of is_upto_date(time) at the current clock
CheckUptoDate ==
    /\ fresh = "none"
    /\ fresh' = IF IsUptoDate(time, now, market_hours) THEN "true" ELSE "false"
    /\ UNCHANGED <<now, market_hours, store, last, settled, time>>
    /\ UNCHANGED laterVars

\* the caller passes another last_updated to the next evaluation
NextArgument ==
    /\ fresh # "none"
    /\ fresh' = "none"
    /\ time' \in Instants(DateOf(now) - 1, DateOf(now))
    /\ UNCHANGED <<now, market_hours, store, last, settled>>
    /\ UNCHANGED laterVars

NextFresh == CheckUptoDate \/ NextArgument

SpecFresh == InitFresh /\ [][NextFresh]_vars

----------------------------------------------------------------------------
(* Claims about is_upto_date                                               *)

\* C9: while the clock is on a Monday-Friday inside [market_open, market_close),
\* is_upto_date is false for every last_updated, also for one later than now.
C9_NeverFreshInMarketHours ==
    (fresh # "none" /\ InMarketHours(now, market_hours)) => fresh = "false"

C9_Witness ==
    /\ fresh = "false"
    /\ InMarketHours(now, market_hours)
    /\ time > now

\* the latest instant <= n that is the configured close on a Monday-Friday date
WeekdayCloses(n, hours) ==
    { At(d, hours[2]) : d \in { e \in (DateOf(n) - 7)..DateOf(n) : Weekday(e) \in 0..4 } }

LatestWeekdayClose(n, hours) ==
    CHOOSE c \in WeekdayCloses(n, hours) :
        /\ c <= n
        /\ \A e \in WeekdayCloses(n, hours) : e <= n => e <= c

\* C10: outside market hours is_upto_date(last_updated) is true exactly when
\* last_updated >= the latest Monday-Friday close that is <= now.
C10_FreshIffAfterLastClose ==
    (fresh # "none" /\ ~InMarketHours(now, market_hours)) =>
        (fresh = "true" <=> time >= LatestWeekdayClose(now, market_hours))

\* the example: hours (09:30, 16:00), Tuesday 17:00, last_updated Tuesday 16:05
C10_Witness ==
    /\ market_hours = <<Hm(9, 30), Hm(16, 0)>>
    /\ now = At(1, Hm(17, 0))
    /\ time = At(1, Hm(16, 5))
    /\ fresh = "true"

\* the example's instants: hours (09:30, 16:00), the clock on a Monday at tod,
\* last_updated the Friday before at 16:05
MondayAfterFriday(tod) ==
    /\ market_hours = <<Hm(9, 30), Hm(16, 0)>>
    /\ Weekday(DateOf(now)) = 0
    /\ TimeOfDay(now) = tod
    /\ time = At(DateOf(now) - 3, Hm(16, 5))

\* C11 as stated: with hours (09:30, 16:00), at Monday 17:00 is_upto_date is
\* true for last_updated = the Friday before, 16:05.
C11_FridayFreshOnMondayEvening ==
    (fresh # "none" /\ MondayAfterFriday(Hm(17, 0))) => fresh = "true"

\* C11 amended: at Monday 17:00 Monday's own 16:00 close has passed, so
\* last_updated = Friday 16:05 is not fresh; it is fresh on that Monday before
\* the open (09:29), where the walk skips the weekend back to Friday 16:00.
C11_FridayFreshUntilMondayClose ==
    /\ (fresh # "none" /\ MondayAfterFriday(Hm(17, 0))) => fresh = "false"
    /\ (fresh # "none" /\ MondayAfterFriday(Hm(9, 29))) => fresh = "true"

C11_Witness ==
    /\ MondayAfterFriday(Hm(17, 0))
    /\ DateOf(now) = 7
    /\ fresh = "false"

----------------------------------------------------------------------------
(* util.rs: compute_perf.  A close is a symbol of the bar's state, so a    *)
(* percentage change is kept as the pair of closes it is computed from.    *)

Horizons == { "1M", "3M", "6M", "1Y" }

MonthsOf(h) == CASE h = "1M" -> 1 [] h = "3M" -> 3 [] h = "6M" -> 6 [] h = "1Y" -> 12

\* latest.timestamp - Months::new(months_ago), a month taken as 30 days
MonthsBefore(ts, months) == ts - months * 30 * MinutesPerDay

Abs(x) == IF x < 0 THEN -x ELSE x

\* min_by_key: the first candle at the least distance from target
Closest(candles, target) ==
    LET dist(i) == Abs(candles[i].timestamp - target)
        k == CHOOSE i \in 1..Len(candles) :
                /\ \A j \in 1..Len(candles) : dist(i) <= dist(j)
                /\ \A j \in 1..(i - 1) : dist(j) > dist(i)
    IN candles[k]

\* (latest.close - c.close) / c.close * 100.0
PctChange(latest, c) == [from |-> c.close, to |-> latest.close]

\* f64::default(), what a horizon missing from the map reads as
PctDefault == [from |-> "none", to |-> "none"]

ComputePerf(candles) ==
    IF candles = <<>>
    THEN [h \in {} |-> PctDefault]
    ELSE LET latest == candles[Len(candles)]
         IN [h \in Horizons |->
                PctChange(latest, Closest(candles, MonthsBefore(latest.timestamp, MonthsOf(h))))]

----------------------------------------------------------------------------
(* lib.rs, store.rs: performances                                          *)

\* Performance::new
NewPerformance(ticker, ticker_type, perf_map, n) ==
    LET field(h) == IF h \in DOMAIN perf_map THEN perf_map[h] ELSE PctDefault
    IN [ticker |-> ticker, ticker_type |-> ticker_type,
        perf_1m |-> field("1M"), perf_3m |-> field("3M"),
        perf_6m |-> field("6M"), perf_1y |-> field("1Y"),
        extra_info |-> perf_map, last_updated |-> n]

PerformanceRows(tbl, ticker, ticker_type) ==
    { r \in tbl : r.ticker = ticker /\ r.ticker_type = ticker_type }

\* Store::get_performance: the row, when there is one and it is fresh
GetPerformance(tbl, ticker, ticker_type, n, hours) ==
    LET rows == PerformanceRows(tbl, ticker, ticker_type)
    IN IF rows # {} /\ IsUptoDate((CHOOSE r \in rows : TRUE).last_updated, n, hours)
       THEN [some |-> TRUE, perf |-> CHOOSE r \in rows : TRUE]
       ELSE [some |-> FALSE]

RECURSIVE SavePerformances(_, _)
\* Store::save_performances: INSERT ... ON CONFLICT(ticker, ticker_type) DO UPDATE
SavePerformances(tbl, perfs) ==
    IF perfs = <<>> THEN tbl
    ELSE SavePerformances(
            (tbl \ PerformanceRows(tbl, Head(perfs).ticker, Head(perfs).ticker_type))
                \cup {Head(perfs)},
            Tail(perfs))

\* fetch_stock_perf: pst is the performance table, st the candle table
FetchStockPerf(pst, st, ticker, n, hours, resp) ==
    LET cached == GetPerformance(pst, ticker, "Stock", n, hours)
    IN IF cached.some
       THEN [path |-> "cached", ok |-> TRUE, ret |-> cached.perf,
             store |-> st, performance |-> pst]
       ELSE LET out == FetchCandles(st, ticker, n, hours, resp)
            IN IF ~out.ok
               THEN [path |-> "computed", ok |-> FALSE, ret |-> <<>>,
                     store |-> out.store, performance |-> pst]
               ELSE [path |-> "computed", ok |-> TRUE,
                     ret |-> NewPerformance(ticker, "Stock", ComputePerf(out.ret), n),
                     store |-> out.store, performance |-> pst]

\* what the screen shows for a horizon (tv/perf_util.rs parses it from the page)
ScreenPct == [from |-> "screen", to |-> "screen"]

\* one whole call fetch_stock_perf(store, yf, ticker)
StockPerf ==
    \E ticker \in {Ticker}, resp \in Responses(now, market_hours) :
      \E out \in {FetchStockPerf(performance, store, ticker, now, market_hours, resp)} :
           /\ store' = out.store
           /\ performance' = out.performance
           /\ perf' = [path |-> out.path, ok |-> out.ok, ret |-> out.ret,
                       ticker |-> ticker, at |-> now]
           /\ UNCHANGED <<now, market_hours, last, settled, time, fresh, bulk, many, rrg, avg, restVars>>

\* the top-stocks screen lists the ticker: its performance, parsed from the
\* page, is saved by TvManager::fetch_stocks
ScreenPerformances ==
    /\ performance' =
          SavePerformances(performance,
              <<NewPerformance(Ticker, "Stock", [h \in Horizons |-> ScreenPct], now)>>)
    /\ UNCHANGED <<now, market_hours, store, last, settled, time, fresh, perf, bulk, many, rrg, avg, restVars>>

NextPerf == Tick \/ StockPerf \/ ScreenPerformances

SpecPerf == Init /\ [][NextPerf]_vars

----------------------------------------------------------------------------
(* Claims about fetch_stock_perf                                           *)

\* C12 as stated: after a call that found no fresh Performance and succeeded,
\* the performance table holds a row for (ticker, Stock) equal to the
\* returned Performance.
C12_ComputedPerformancePersisted ==
    (perf.path = "computed" /\ perf.ok) =>
        \E row \in PerformanceRows(performance, perf.ticker, "Stock") : row = perf.ret

----------------------------------------------------------------------------
(* bin/stock_themes.rs: fetch_stock_info.  The stock-info store is the set *)
(* of tickers it has a Stock for; writing to it and constructing the       *)
(* fetcher succeed.                                                        *)

MaxStocks == 3

TickerNames == <<"AAA", "BBB", "CCC", "DDD", "EEE">>

Tickers == { TickerNames[i] : i \in 1..MaxStocks }

\* read_stocks: the tickers of the csv files, each once, in any order
StockLists ==
    { l \in UNION { [1..k -> Tickers] : k \in 0..MaxStocks } :
        \A i, j \in 1..Len(l) : i < j => l[i] # l[j] }

\* stocks.iter().filter(|s| store.get(s).is_none())
NewStocks(stocks, info) == SelectSeq(stocks, LAMBDA t : t \notin info)

\* fetch_stock_info up to its loop
BeginInfo(b) ==
    LET new_stocks == NewStocks(b.stocks, b.info)
    IN [b EXCEPT !.pc = IF new_stocks = <<>> THEN "collect" ELSE "loop",
                 !.todo = new_stocks]

\* faulty variant of FetchOne: the fetch error is propagated at once (result?)
FetchOneOrReturn(b, ok) ==
    LET ticker == Head(b.todo)
    IN IF ok
       THEN [b EXCEPT !.todo = Tail(b.todo),
                      !.attempts = Append(b.attempts, [ticker |-> ticker, ok |-> TRUE]),
                      !.info = b.info \cup {ticker}]
       ELSE [b EXCEPT !.pc = "done",
                      !.attempts = Append(b.attempts, [ticker |-> ticker, ok |-> FALSE]),
                      !.result = [ok |-> FALSE, failed |-> {ticker}]]

\* one iteration of the loop: ok is whether si_fetcher.fetch(ticker) succeeded
FetchOne(b, ok) ==
    LET ticker == Head(b.todo)
    IN IF ok
       THEN [b EXCEPT !.todo = Tail(b.todo),
                      !.attempts = Append(b.attempts, [ticker |-> ticker, ok |-> TRUE]),
                      !.info = b.info \cup {ticker}]
       ELSE [b EXCEPT !.todo = Tail(b.todo),
                      !.attempts = Append(b.attempts, [ticker |-> ticker, ok |-> FALSE]),
                      !.errors = b.errors \cup {ticker}]

\* after the loop: the aggregate error, or on to the result
EndLoop(b) ==
    IF b.errors # {}
    THEN [b EXCEPT !.pc = "done", !.result = [ok |-> FALSE, failed |-> b.errors]]
    ELSE [b EXCEPT !.pc = "collect"]

\* stocks.into_iter().filter_map(|ticker| store.get(&ticker))
CollectInfo(b) ==
    [b EXCEPT !.pc = "done",
              !.result = [ok |-> TRUE, stocks |-> SelectSeq(b.stocks, LAMBDA t : t \in b.info)]]

InitInfo ==
    /\ bulk \in { [pc |-> "start", stocks |-> l, known |-> k, info |-> k, todo |-> <<>>,
                   errors |-> {}, attempts |-> <<>>, result |-> [ok |-> TRUE, stocks |-> <<>>]] :
                  l \in StockLists, k \in SUBSET Tickers }
    /\ CacheIdle
    /\ RestIdle
    /\ performance = {}
    /\ perf = NoCall
    /\ many = NoCall
    /\ rrg = NoCall
    /\ avg = NoCall

infoIdle == <<cacheVars, performance, perf, many, rrg, avg, restVars>>

Begin ==
    /\ bulk.pc = "start"
    /\ bulk' = BeginInfo(bulk)
    /\ UNCHANGED infoIdle

Fetch ==
    /\ bulk.pc = "loop"
    /\ bulk.todo # <<>>
    /\ \E ok \in BOOLEAN : bulk' = FetchOne(bulk, ok)
    /\ UNCHANGED infoIdle

AfterLoop ==
    /\ bulk.pc = "loop"
    /\ bulk.todo = <<>>
    /\ bulk' = EndLoop(bulk)
    /\ UNCHANGED infoIdle

Collect ==
    /\ bulk.pc = "collect"
    /\ bulk' = CollectInfo(bulk)
    /\ UNCHANGED infoIdle

NextInfo == Begin \/ Fetch \/ AfterLoop \/ Collect

SpecInfo == InitInfo /\ [][NextInfo]_vars

----------------------------------------------------------------------------
(* Claims about fetch_stock_info                                           *)

AttemptedTickers == [i \in 1..Len(bulk.attempts) |-> bulk.attempts[i].ticker]

FailedTickers == { bulk.attempts[i].ticker : i \in { j \in 1..Len(bulk.attempts) : ~bulk.attempts[j].ok } }

SucceededTickers == { bulk.attempts[i].ticker : i \in { j \in 1..Len(bulk.attempts) : bulk.attempts[j].ok } }

----------------------------------------------------------------------------
(* yf.rs: fetch_candles_many.  The stream of the symbols is mapped to one  *)
(* fetch each and driven by buffer_unordered(max_concurrent); collect()    *)
(* inserts every (symbol, result) it yields into the HashMap.  A fetch's   *)
(* result is kept as the symbol it asked the chart of and whether the      *)
(* provider answered.                                                      *)

MaxSymbols == 3

MaxConcurrent == 2

\* faulty variant of MayStart: the stream is drained without looking at the queue
MayStartAlways(inflight, max_concurrent) == TRUE

\* buffer_unordered takes the next future off the stream only while fewer
\* than max_concurrent are in its queue
MayStart(inflight, max_concurrent) == Cardinality(inflight) < max_concurrent

\* faulty variant of Collected: only the successful fetches are kept
CollectedOkOnly(map, symbol, ok) ==
    IF ok
    THEN [s \in DOMAIN map \cup {symbol} |->
             IF s = symbol THEN [symbol |-> symbol, ok |-> ok] ELSE map[s]]
    ELSE map

\* HashMap::extend with one (symbol.to_owned(), result)
Collected(map, symbol, ok) ==
    [s \in DOMAIN map \cup {symbol} |->
        IF s = symbol THEN [symbol |-> symbol, ok |-> ok] ELSE map[s]]

EmptyMap == [s \in {} |-> NoCall]

InitMany ==
    /\ many \in { [pc |-> "running", symbols |-> l, max_concurrent |-> c, next |-> 1,
                   inflight |-> {}, results |-> EmptyMap, finished |-> <<>>] :
                  l \in UNION { [1..k -> Tickers] : k \in 0..MaxSymbols },
                  c \in 1..MaxConcurrent }
    /\ CacheIdle
    /\ RestIdle
    /\ performance = {}
    /\ perf = NoCall
    /\ bulk = NoCall
    /\ rrg = NoCall
    /\ avg = NoCall

manyIdle == <<cacheVars, performance, perf, bulk, rrg, avg, restVars>>

\* the next symbol's fetch is created and polled
StartFetch ==
    /\ many.pc = "running"
    /\ many.next <= Len(many.symbols)
    /\ MayStart(many.inflight, many.max_concurrent)
    /\ many' = [many EXCEPT !.next = many.next + 1,
                            !.inflight = many.inflight \cup {many.next}]
    /\ UNCHANGED manyIdle

\* a fetch in flight finishes, successfully or not, and its item is collected
FinishFetch ==
    /\ many.pc = "running"
    /\ \E i \in many.inflight, ok \in BOOLEAN :
          many' = [many EXCEPT
                      !.inflight = many.inflight \ {i},
                      !.results = Collected(many.results, many.symbols[i], ok),
                      !.finished = Append(many.finished, [index |-> i, ok |-> ok])]
    /\ UNCHANGED manyIdle

\* the stream is exhausted and the queue empty: collect() returns the map
ReturnMany ==
    /\ many.pc = "running"
    /\ many.next > Len(many.symbols)
    /\ many.inflight = {}
    /\ many' = [many EXCEPT !.pc = "done"]
    /\ UNCHANGED manyIdle

NextMany == StartFetch \/ FinishFetch \/ ReturnMany

SpecMany == InitMany /\ [][NextMany]_vars

----------------------------------------------------------------------------
(* Claims about fetch_candles_many                                         *)

\* C14: at every instant the fetches started and not yet finished are at most
\* max_concurrent.
C14_InFlightBounded ==
    many.pc # "none" => Cardinality(many.inflight) <= many.max_concurrent

\* the queue is full while a symbol is still waiting on the stream
C14_Witness ==
    /\ many.pc = "running"
    /\ many.max_concurrent = 2
    /\ Cardinality(many.inflight) = 2
    /\ many.next <= Len(many.symbols)

FinishedIndices == { many.finished[k].index : k \in 1..Len(many.finished) }

\* the outcomes of the finished fetches that asked for symbol s
OutcomesOf(s) ==
    { many.finished[k].ok :
        k \in { j \in 1..Len(many.finished) : many.symbols[many.finished[j].index] = s } }

\* C15: the map is returned only when every symbol's fetch has finished, each
\* once; its keys are exactly the distinct requested symbols, and the entry
\* under a symbol is the result of a fetch of that symbol (of its only fetch
\* when the symbol was requested once), whatever the other fetches did and in
\* whatever order they finished.
C15_EveryOutcomeCollected ==
    many.pc = "done" =>
        /\ FinishedIndices = 1..Len(many.symbols)
        /\ Len(many.finished) = Len(many.symbols)
        /\ DOMAIN many.results = { many.symbols[i] : i \in 1..Len(many.symbols) }
        /\ \A s \in DOMAIN many.results :
              /\ many.results[s].symbol = s
              /\ many.results[s].ok \in OutcomesOf(s)

\* three symbols, the second fetch finishes first and fails, the others succeed
C15_Witness ==
    /\ many.pc = "done"
    /\ Len(many.symbols) = 3
    /\ Cardinality(DOMAIN many.results) = 3
    /\ many.finished[1] = [index |-> 2, ok |-> FALSE]
    /\ many.finished[2].ok
    /\ many.finished[3].ok
    /\ ~many.results[many.symbols[2]].ok

----------------------------------------------------------------------------
(* rrg_util.rs: numbers.  An f64 is kept as a fixed-point number, a whole  *)
(* count of 1/Scale; a quotient is cut off at that unit.                   *)

Scale == 10000

RECURSIVE Decimals(_, _, _)
\* the first k decimal digits of rem / y, for 0 <= rem < y
Decimals(rem, y, k) ==
    IF k = 0 THEN 0
    ELSE ((rem * 10) \div y) * (10 ^ (k - 1)) + Decimals((rem * 10) % y, y, k - 1)

\* x / y
FDiv(x, y) == (x \div y) * Scale + Decimals(x % y, y, 4)

\* (v * 1000.0).round() / 1000.0
R3(v) == ((v + 5) \div 10) * 10

RECURSIVE Sum(_)
\* window.iter().sum::<f64>()
Sum(window) == IF window = <<>> THEN 0 ELSE Head(window) + Sum(Tail(window))

\* usize::saturating_sub
SaturatingSub(a, b) == IF a >= b THEN a - b ELSE 0

RECURSIVE SmaFrom(_, _, _)
\* the elements of sma(src, period) from position i on (positions count from 0)
SmaFrom(src, period, i) ==
    IF i >= Len(src) THEN <<>>
    ELSE LET start == SaturatingSub(i, period - 1)
             window == SubSeq(src, start + 1, i + 1)
         IN <<Sum(window) \div Len(window)>> \o SmaFrom(src, period, i + 1)

RECURSIVE SmaWiderFrom(_, _, _)
\* SmaFrom with the window started at i - period
SmaWiderFrom(src, period, i) ==
    IF i >= Len(src) THEN <<>>
    ELSE LET start == SaturatingSub(i, period)
             window == SubSeq(src, start + 1, i + 1)
         IN <<Sum(window) \div Len(window)>> \o SmaWiderFrom(src, period, i + 1)

\* faulty variant of Sma: the window reaches one element further back (i - period)
SmaWider(src, period) == SmaWiderFrom(src, period, 0)

Sma(src, period) == SmaFrom(src, period, 0)

----------------------------------------------------------------------------
(* sma applied to given arguments                                          *)

MaxLen == 4

MaxPeriod == 3

SeriesValues == { Scale, 2 * Scale + 5000, 4 * Scale + 1 }

InitSma ==
    /\ avg \in { [pc |-> "args", src |-> l, period |-> p, out |-> <<>>] :
                 l \in UNION { [1..k -> SeriesValues] : k \in 0..MaxLen },
                 p \in 1..MaxPeriod }
    /\ CacheIdle
    /\ RestIdle
    /\ performance = {}
    /\ perf = NoCall
    /\ bulk = NoCall
    /\ many = NoCall
    /\ rrg = NoCall

ApplySma ==
    /\ avg.pc = "args"
    /\ avg' = [avg EXCEPT !.pc = "done", !.out = Sma(avg.src, avg.period)]
    /\ UNCHANGED <<cacheVars, performance, perf, bulk, many, rrg, restVars>>

SpecSma == InitSma /\ [][ApplySma]_vars

----------------------------------------------------------------------------
(* Claims about sma                                                        *)

RECURSIVE SumBetween(_, _, _)
\* src[lo] + ... + src[hi], positions counted from 1
SumBetween(src, lo, hi) == IF lo > hi THEN 0 ELSE src[hi] + SumBetween(src, lo, hi - 1)

\* m is the mean of src[lo..hi], cut off at the unit of the representation
IsMeanOf(m, src, lo, hi) ==
    LET count == hi - lo + 1
    IN /\ m * count <= SumBetween(src, lo, hi)
       /\ SumBetween(src, lo, hi) < (m + 1) * count

\* C20: for a non-empty series and period >= 1 the result has the series'
\* length, element i (from 0) is the mean of series[max(0, i-period+1) ..= i],
\* and element 0 is series[0].
C20_SmaIsWindowMean ==
    (avg.pc = "done" /\ avg.src # <<>>) =>
        /\ Len(avg.out) = Len(avg.src)
        /\ \A i \in 0..(Len(avg.src) - 1) :
              LET lo == IF i - avg.period + 1 > 0 THEN i - avg.period + 1 ELSE 0
              IN IsMeanOf(avg.out[i + 1], avg.src, lo + 1, i + 1)
        /\ avg.out[1] = avg.src[1]

\* both kinds of window: expanding at the start, trailing afterwards
C20_Witness ==
    /\ avg.pc = "done"
    /\ avg.period = 2
    /\ avg.src = <<Scale, 4 * Scale + 1, 2 * Scale + 5000, 4 * Scale + 1>>
    /\ avg.out = <<Scale, 25000, 32500, 32500>>

----------------------------------------------------------------------------
(* rrg_util.rs: compute_rrg.  A date is the day number; the week of a date *)
(* is its (ISO year, ISO week), which orders like the count of weeks since *)
(* day 0, a Monday.                                                        *)

MinAligned == 20

DailyPeriod == 50

WeeklyPeriod == 10

\* usize::MAX, with usize kept 16 bits wide
UsizeMax == 65535

ToDaily(candles) ==
    [i \in 1..Len(candles) |->
        [date |-> DateOf(candles[i].timestamp), close |-> candles[i].close]]

WeekOf(date) == date \div 7

RECURSIVE Ascending(_)
\* BTreeMap::into_values: by ascending key
Ascending(keys) ==
    IF keys = {} THEN <<>>
    ELSE LET m == CHOOSE x \in keys : \A y \in keys : x <= y
         IN <<m>> \o Ascending(keys \ {m})

\* faulty variant of ToWeekly: the first candle of each week stays
ToWeeklyKeepFirst(candles) ==
    LET week(i) == WeekOf(DateOf(candles[i].timestamp))
        keys == Ascending({ week(i) : i \in 1..Len(candles) })
        firstIn(w) == CHOOSE i \in 1..Len(candles) :
                        /\ week(i) = w
                        /\ \A j \in 1..(i - 1) : week(j) # w
    IN [k \in 1..Len(keys) |->
           [date |-> DateOf(candles[firstIn(keys[k])].timestamp),
            close |-> candles[firstIn(keys[k])].close]]

\* weeks.insert(key, ..) overwrites: the last candle of each week stays
ToWeekly(candles) ==
    LET week(i) == WeekOf(DateOf(candles[i].timestamp))
        keys == Ascending({ week(i) : i \in 1..Len(candles) })
        lastIn(w) == CHOOSE i \in 1..Len(candles) :
                        /\ week(i) = w
                        /\ \A j \in (i + 1)..Len(candles) : week(j) # w
    IN [k \in 1..Len(keys) |->
           [date |-> DateOf(candles[lastIn(keys[k])].timestamp),
            close |-> candles[lastIn(keys[k])].close]]

Resample(candles, timeframe) ==
    IF timeframe = "daily" THEN ToDaily(candles) ELSE ToWeekly(candles)

\* faulty variant of Align: the benchmark close is not tested
AlignAnyBenchmark(etf, bmk) ==
    LET bmk_dates == { bmk[i].date : i \in 1..Len(bmk) }
        bmk_map(d) == bmk[CHOOSE i \in 1..Len(bmk) :
                             /\ bmk[i].date = d
                             /\ \A j \in (i + 1)..Len(bmk) : bmk[j].date # d].close
        kept == SelectSeq(etf, LAMBDA p : p.date \in bmk_dates /\ p.close > 0)
    IN [etf_close |-> [i \in 1..Len(kept) |-> kept[i].close],
        dates |-> [i \in 1..Len(kept) |-> kept[i].date],
        bmk_close |-> [i \in 1..Len(kept) |-> bmk_map(kept[i].date)]]

\* inner join on date, in the order of etf; bmk_map holds the last close of a date
Align(etf, bmk) ==
    LET bmk_dates == { bmk[i].date : i \in 1..Len(bmk) }
        bmk_map(d) == bmk[CHOOSE i \in 1..Len(bmk) :
                             /\ bmk[i].date = d
                             /\ \A j \in (i + 1)..Len(bmk) : bmk[j].date # d].close
        kept == SelectSeq(etf, LAMBDA p :
                    p.date \in bmk_dates /\ p.close > 0 /\ bmk_map(p.date) > 0)
    IN [etf_close |-> [i \in 1..Len(kept) |-> kept[i].close],
        dates |-> [i \in 1..Len(kept) |-> kept[i].date],
        bmk_close |-> [i \in 1..Len(kept) |-> bmk_map(kept[i].date)]]

\* faulty variant of TooFew: the gate is one point too low
TooFewBelowGate(n) == n < MinAligned - 1

TooFew(n) == n < MinAligned

\* (x / m) * 100.0, and 100.0 when m is zero
Normalised(x, m) == IF m # 0 THEN FDiv(100 * x, m) ELSE 100 * Scale

RECURSIVE NormalisedAll(_, _)
NormalisedAll(xs, ms) ==
    IF xs = <<>> THEN <<>>
    ELSE <<Normalised(Head(xs), Head(ms))>> \o NormalisedAll(Tail(xs), Tail(ms))

\* steps 3 to 5 on the aligned closes
RsSeries(a, timeframe) ==
    LET n == Len(a.etf_close)
        rs == [i \in 1..n |-> FDiv(a.etf_close[i], a.bmk_close[i])]
        sma_period == IF timeframe = "daily" THEN DailyPeriod ELSE WeeklyPeriod
        rs_smooth == Sma(rs, sma_period)
        rs_ratio == NormalisedAll(rs_smooth, Sma(rs_smooth, sma_period))
    IN [rs_ratio |-> rs_ratio,
        rs_momentum |-> NormalisedAll(rs_ratio, Sma(rs_ratio, sma_period))]

\* faulty variant of TailRange: the range runs up to the current point
TailRangeToCurrent(n, tail_len_1) ==
    [start |-> SaturatingSub(n, tail_len_1), end |-> n]

\* faulty variant of TailRange: a tail longer than the series is empty
TailRangeOrEmpty(n, tail_len_1) ==
    IF tail_len_1 > n
    THEN [start |-> SaturatingSub(n, 1), end |-> SaturatingSub(n, 1)]
    ELSE [start |-> SaturatingSub(n, tail_len_1), end |-> SaturatingSub(n, 1)]

\* tail_start..n.saturating_sub(1), end excluded; tail_len_1 is tail_len + 1
TailRange(n, tail_len_1) ==
    [start |-> SaturatingSub(n, tail_len_1), end |-> SaturatingSub(n, 1)]

\* faulty variant of HistoryStart: one point too many
HistoryStartEarly(n, history_len) == SaturatingSub(n, history_len + 1)

HistoryStart(n, history_len) == SaturatingSub(n, history_len)

\* String::to_uppercase on the tickers of the model
ToUppercase(ticker) ==
    CASE ticker = "xlk" -> "XLK"
      [] OTHER -> ticker

\* checks: the build has overflow checks, so tail_len + 1 panics at usize::MAX
\* and wraps to 0 without them
ComputeRrg(ticker, etf_candles, bmk_candles, timeframe, tail_len, history_len, checks) ==
    LET a == Align(Resample(etf_candles, timeframe), Resample(bmk_candles, timeframe))
        n == Len(a.etf_close)
    IN IF TooFew(n) THEN [kind |-> "none"]
       ELSE IF tail_len = UsizeMax /\ checks THEN [kind |-> "panic"]
       ELSE LET s == RsSeries(a, timeframe)
                tail_len_1 == IF tail_len = UsizeMax THEN 0 ELSE tail_len + 1
                t == TailRange(n, tail_len_1)
                hist_start == HistoryStart(n, history_len)
            IN [kind |-> "some",
                ticker |-> ToUppercase(ticker),
                rs_ratio |-> R3(s.rs_ratio[n]),
                rs_momentum |-> R3(s.rs_momentum[n]),
                tail |-> [k \in 1..(IF t.end > t.start THEN t.end - t.start ELSE 0) |->
                             [rs_ratio |-> R3(s.rs_ratio[t.start + k]),
                              rs_momentum |-> R3(s.rs_momentum[t.start + k])]],
                rs_history |-> [k \in 1..(n - hist_start) |->
                                   [date |-> a.dates[hist_start + k],
                                    value |-> R3(s.rs_ratio[hist_start + k])]]]

\* rrg_handler after its two fetch_candles calls, whose outcomes are etf and bmk
RrgResponse(ticker, etf, bmk, timeframe, tail, history, checks) ==
    IF ~etf.ok \/ ~bmk.ok THEN [status |-> "error", why |-> "fetch"]
    ELSE IF etf.candles = <<>> \/ bmk.candles = <<>>
    THEN [status |-> "error", why |-> "empty"]
    ELSE LET r == ComputeRrg(ticker, etf.candles, bmk.candles, timeframe, tail, history, checks)
         IN CASE r.kind = "none" -> [status |-> "error", why |-> "compute"]
              [] r.kind = "panic" -> [status |-> "panic"]
              [] OTHER -> [status |-> "ok", body |-> r]

----------------------------------------------------------------------------
(* rrg_handler on given fetch outcomes and query                           *)

MaxBars == 22

\* the k-th Monday-to-Friday date from day 0
TradingDay(k) == 7 * (k \div 5) + (k % 5)

\* closes of the instrument and of the benchmark on trading day k; the
\* instrument has one bar with a zero close
EtfClose(k) == IF k = 5 THEN 0 ELSE (100 + 3 * ((7 * k) % 13)) * Scale

BmkClose(k) == (200 + 2 * ((5 * k) % 11)) * Scale

\* count bars of the instrument ("etf") or of the benchmark, one every stride
\* trading days from trading day first on
Bars(first, count, stride, side) ==
    [i \in 1..count |->
        [timestamp |-> At(TradingDay(first + (i - 1) * stride), Hm(9, 30)),
         close |-> IF side = "etf"
                   THEN EtfClose(first + (i - 1) * stride)
                   ELSE BmkClose(first + (i - 1) * stride)]]

BarCounts == {0} \cup ((MinAligned - 1)..MaxBars)

\* what fetch_candles may return: an error, or the ascending candles
FetchOutcomes(first, stride, side) ==
    {[ok |-> FALSE]} \cup
    { [ok |-> TRUE, candles |-> Bars(first, count, stride, side)] : count \in BarCounts }

TailLens == { 0, 3, MinAligned - 1, MaxBars + 3, UsizeMax }

HistoryLens == { 0, 1, MinAligned, MaxBars + 3 }

RrgCalls ==
    UNION { UNION {
        { [pc |-> "args", ticker |-> "xlk", etf |-> e, bmk |-> b, timeframe |-> tf,
           tail |-> t, history |-> h, response |-> NoCall] :
             e \in FetchOutcomes(0, stride, "etf"),
             b \in FetchOutcomes(shift * stride, stride, "bmk"),
             tf \in {"daily", "weekly"}, t \in TailLens, h \in HistoryLens }
        : shift \in {0, 2} } : stride \in {1, 5} }

InitRrg ==
    /\ rrg \in RrgCalls
    /\ CacheIdle
    /\ RestIdle
    /\ performance = {}
    /\ perf = NoCall
    /\ bulk = NoCall
    /\ many = NoCall
    /\ avg = NoCall

\* one whole request GET /api/rrg/:ticker
RrgHandler ==
    /\ rrg.pc = "args"
    /\ \E checks \in BOOLEAN :
         \E r \in {RrgResponse(rrg.ticker, rrg.etf, rrg.bmk, rrg.timeframe,
                               rrg.tail, rrg.history, checks)} :
            rrg' = [rrg EXCEPT !.pc = "done", !.response = r]
    /\ UNCHANGED <<cacheVars, performance, perf, bulk, many, avg, restVars>>

SpecRrg == InitRrg /\ [][RrgHandler]_vars

----------------------------------------------------------------------------
(* Claims about compute_rrg and rrg_handler                                *)

Fetched == rrg.pc = "done" /\ rrg.etf.ok /\ rrg.bmk.ok

\* the period series of the request and the dates they share
EtfPeriods == Resample(rrg.etf.candles, rrg.timeframe)

BmkPeriods == Resample(rrg.bmk.candles, rrg.timeframe)

SharedDates ==
    { EtfPeriods[i].date : i \in 1..Len(EtfPeriods) }
        \cap { BmkPeriods[i].date : i \in 1..Len(BmkPeriods) }

\* n, the aligned points, and their rs_ratio and rs_momentum
Aligned == Align(EtfPeriods, BmkPeriods)

AlignedCount == Len(Aligned.etf_close)

\* the tail entry the point of index i (from 0) gives
TailPointAt(series, i) ==
    [rs_ratio |-> R3(series.rs_ratio[i + 1]), rs_momentum |-> R3(series.rs_momentum[i + 1])]

\* C16: when the two period series share fewer than 20 dates compute_rrg
\* returns None, for either timeframe, every tail_len and history_len and
\* either build, and the handler answers with a failure; it does so too when
\* either candle series is empty.
C16_TooFewPointsIsFailure ==
    Fetched =>
        /\ Cardinality(SharedDates) < 20 =>
              /\ \A checks \in BOOLEAN :
                    ComputeRrg(rrg.ticker, rrg.etf.candles, rrg.bmk.candles, rrg.timeframe,
                               rrg.tail, rrg.history, checks) = [kind |-> "none"]
              /\ rrg.response.status = "error"
        /\ (rrg.etf.candles = <<>> \/ rrg.bmk.candles = <<>>) =>
              rrg.response.status = "error"

\* nineteen shared dates, the largest tail_len
C16_Witness ==
    /\ Fetched
    /\ Cardinality(SharedDates) = 19
    /\ rrg.etf.candles # <<>>
    /\ rrg.tail = UsizeMax
    /\ rrg.response = [status |-> "error", why |-> "compute"]

\* C17 as stated: with n >= 20 aligned points and tail_len + 1 > n the result
\* is produced and its tail is empty.
C17_LongTailIsEmpty ==
    (Fetched /\ AlignedCount >= 20 /\ rrg.tail + 1 > AlignedCount) =>
        /\ rrg.response.status = "ok"
        /\ rrg.response.body.tail = <<>>

\* C17 amended: with n >= 20 aligned points and tail_len + 1 > n the tail is
\* clipped to the n - 1 points before the current one, indices 0 .. n-2,
\* oldest first.  Only tail_len = usize::MAX differs: tail_len + 1 overflows,
\* which panics in a build with overflow checks and otherwise wraps to 0 and
\* leaves the tail empty.
C17_LongTailIsClipped ==
    (Fetched /\ AlignedCount >= 20 /\ rrg.tail + 1 > AlignedCount) =>
        IF rrg.tail = UsizeMax
        THEN \/ rrg.response.status = "panic"
             \/ rrg.response.status = "ok" /\ rrg.response.body.tail = <<>>
        ELSE /\ rrg.response.status = "ok"
             /\ rrg.response.body.tail =
                   [k \in 1..(AlignedCount - 1) |->
                       TailPointAt(RsSeries(Aligned, rrg.timeframe), k - 1)]

C17_Witness ==
    /\ Fetched
    /\ AlignedCount = 21
    /\ rrg.tail = MaxBars + 3
    /\ rrg.response.status = "ok"
    /\ Len(rrg.response.body.tail) = 20

\* C18: when the result is produced and tail_len + 1 <= n, the tail has
\* tail_len entries, the points of indices n-1-tail_len .. n-2 in that order;
\* the current point, index n-1, is not among them.
C18_TailPrecedesCurrent ==
    (Fetched /\ rrg.response.status = "ok" /\ rrg.tail + 1 <= AlignedCount) =>
        /\ Len(rrg.response.body.tail) = rrg.tail
        /\ \A k \in 1..rrg.tail :
              rrg.response.body.tail[k] =
                  TailPointAt(RsSeries(Aligned, rrg.timeframe),
                              AlignedCount - 1 - rrg.tail + (k - 1))

\* tail_len + 1 = n, and the current point differs from the newest tail point
C18_Witness ==
    /\ Fetched
    /\ rrg.response.status = "ok"
    /\ AlignedCount = 20
    /\ rrg.tail = 19
    /\ Len(rrg.response.body.tail) = 19
    /\ rrg.response.body.tail[19].rs_ratio # rrg.response.body.rs_ratio

\* C19: when the result is produced, rs_history has min(history_len, n)
\* entries, the (date, rs_ratio) of indices max(0, n-history_len) .. n-1 in
\* that order, and for history_len >= 1 its last value is the current rs_ratio.
C19_HistoryIsLastPoints ==
    (Fetched /\ rrg.response.status = "ok") =>
        LET n == AlignedCount
            count == IF rrg.history < n THEN rrg.history ELSE n
            first == IF n - rrg.history > 0 THEN n - rrg.history ELSE 0
            history == rrg.response.body.rs_history
        IN /\ Len(history) = count
           /\ \A k \in 1..count :
                 history[k] =
                    [date |-> Aligned.dates[first + k],
                     value |-> R3(RsSeries(Aligned, rrg.timeframe).rs_ratio[first + k])]
           /\ rrg.history >= 1 => history[count].value = rrg.response.body.rs_ratio

C19_Witness ==
    /\ Fetched
    /\ rrg.response.status = "ok"
    /\ AlignedCount = 21
    /\ rrg.history = 20
    /\ Len(rrg.response.body.rs_history) = 20
    /\ rrg.response.body.rs_history[1].value # rrg.response.body.rs_history[20].value

----------------------------------------------------------------------------
(* to_weekly applied to given candles                                      *)

MaxCandles == 3

\* a Monday, a Friday (at the open and at the close), a Sunday, the next
\* Monday and a Tuesday two weeks later
CandleTimes ==
    { At(0, Hm(9, 30)), At(4, Hm(9, 30)), At(4, Hm(16, 0)), At(6, Hm(9, 30)),
      At(7, Hm(9, 30)), At(15, Hm(9, 30)) }

CandleCloses == { Scale, 2 * Scale }

InitWeekly ==
    /\ weekly \in { [pc |-> "args", candles |-> l, out |-> <<>>] :
                    l \in UNION { [1..k -> [timestamp : CandleTimes, close : CandleCloses]] :
                                  k \in 0..MaxCandles } }
    /\ CacheIdle
    /\ MidIdle
    /\ joined = NoCall
    /\ ranked = NoCall
    /\ race = NoCall
    /\ single = NoCall
    /\ crumb = NoCall
    /\ chart = NoCall

ApplyToWeekly ==
    /\ weekly.pc = "args"
    /\ weekly' = [weekly EXCEPT !.pc = "done", !.out = ToWeekly(weekly.candles)]
    /\ UNCHANGED <<cacheVars, midVars, joined, ranked, race, single, crumb, chart>>

SpecWeekly == InitWeekly /\ [][ApplyToWeekly]_vars

----------------------------------------------------------------------------
(* Claims about to_weekly                                                  *)

\* the candles are in ascending timestamp order
SuppliedAscending(candles) ==
    \A i \in 1..Len(candles) : \A j \in (i + 1)..Len(candles) :
        candles[i].timestamp <= candles[j].timestamp

\* the weeks the candles fall in
WeeksOf(candles) == { WeekOf(DateOf(candles[i].timestamp)) : i \in 1..Len(candles) }

\* C21: for candles supplied in ascending timestamp order to_weekly yields
\* exactly one PeriodClose per distinct week, in ascending week order, and
\* each one carries the date and the close of a candle of its week that no
\* candle of that week is later than (the last one supplied).
C21_WeeklyKeepsLastOfWeek ==
    (weekly.pc = "done" /\ SuppliedAscending(weekly.candles)) =>
        LET c == weekly.candles
            out == weekly.out
        IN /\ Len(out) = Cardinality(WeeksOf(c))
           /\ { WeekOf(out[k].date) : k \in 1..Len(out) } = WeeksOf(c)
           /\ \A k \in 1..(Len(out) - 1) : WeekOf(out[k].date) < WeekOf(out[k + 1].date)
           /\ \A k \in 1..Len(out) :
                 \E i \in 1..Len(c) :
                    /\ out[k] = [date |-> DateOf(c[i].timestamp), close |-> c[i].close]
                    /\ \A j \in 1..Len(c) :
                          WeekOf(DateOf(c[j].timestamp)) = WeekOf(out[k].date)
                              => /\ c[j].timestamp <= c[i].timestamp
                                 /\ j <= i

\* three candles inside one week give one PeriodClose with the last close
C21_Witness ==
    /\ weekly.pc = "done"
    /\ weekly.candles = << [timestamp |-> At(0, Hm(9, 30)), close |-> 2 * Scale],
                           [timestamp |-> At(4, Hm(9, 30)), close |-> 2 * Scale],
                           [timestamp |-> At(6, Hm(9, 30)), close |-> Scale] >>
    /\ weekly.out = << [date |-> 6, close |-> Scale] >>

----------------------------------------------------------------------------
(* align applied to given period series                                    *)

MaxPeriods == 3

PeriodDates == 1..3

\* closes of the instrument and of the benchmark, some of them not positive
EtfCloses == { 0, Scale }

BmkCloses == { 0 - 2 * Scale, 3 * Scale }

InitAlign ==
    /\ \E e \in UNION { [1..k -> [date : PeriodDates, close : EtfCloses]] : k \in 0..MaxPeriods } :
          \E b \in UNION { [1..k -> [date : PeriodDates, close : BmkCloses]] : k \in 0..MaxPeriods } :
             joined = [pc |-> "args", etf |-> e, bmk |-> b, out |-> NoCall]
    /\ CacheIdle
    /\ MidIdle
    /\ weekly = NoCall
    /\ ranked = NoCall
    /\ race = NoCall
    /\ single = NoCall
    /\ crumb = NoCall
    /\ chart = NoCall

ApplyAlign ==
    /\ joined.pc = "args"
    /\ joined' = [joined EXCEPT !.pc = "done", !.out = Align(joined.etf, joined.bmk)]
    /\ UNCHANGED <<cacheVars, midVars, weekly, ranked, race, single, crumb, chart>>

SpecAlign == InitAlign /\ [][ApplyAlign]_vars

----------------------------------------------------------------------------
(* Claims about align                                                      *)

\* the benchmark close of a date: the one of the last benchmark period on it
BenchmarkClose(bmk, d) ==
    bmk[CHOOSE i \in 1..Len(bmk) :
           bmk[i].date = d /\ \A j \in (i + 1)..Len(bmk) : bmk[j].date # d].close

\* the positions of the instrument periods that the join keeps
KeptPositions(etf, bmk) ==
    { i \in 1..Len(etf) :
        /\ \E j \in 1..Len(bmk) : bmk[j].date = etf[i].date
        /\ etf[i].close > 0
        /\ BenchmarkClose(bmk, etf[i].date) > 0 }

\* the k-th smallest member of a set of positions
NthOf(positions, k) ==
    CHOOSE i \in positions : Cardinality({ j \in positions : j < i }) = k - 1

\* C22: the three sequences have one length; they hold exactly the
\* instrument periods whose date occurs in the benchmark series with both
\* closes strictly positive, in the instrument's order, and position i of
\* all three refers to one date.
C22_AlignIsInnerJoin ==
    joined.pc = "done" =>
        LET kept == KeptPositions(joined.etf, joined.bmk)
            out == joined.out
        IN /\ Len(out.etf_close) = Cardinality(kept)
           /\ Len(out.dates) = Cardinality(kept)
           /\ Len(out.bmk_close) = Cardinality(kept)
           /\ \A k \in 1..Cardinality(kept) :
                 LET p == joined.etf[NthOf(kept, k)]
                 IN /\ out.dates[k] = p.date
                    /\ out.etf_close[k] = p.close
                    /\ out.bmk_close[k] = BenchmarkClose(joined.bmk, p.date)

\* one period kept, one dropped for its own close, one for the benchmark's
C22_Witness ==
    /\ joined.pc = "done"
    /\ joined.etf = << [date |-> 1, close |-> Scale], [date |-> 2, close |-> 0],
                       [date |-> 3, close |-> Scale] >>
    /\ joined.bmk = << [date |-> 3, close |-> 0 - 2 * Scale], [date |-> 2, close |-> 3 * Scale],
                       [date |-> 1, close |-> 3 * Scale] >>
    /\ joined.out = [etf_close |-> << Scale >>, dates |-> << 1 >>, bmk_close |-> << 3 * Scale >>]

----------------------------------------------------------------------------
(* util.rs compute_rs and the ranking of top_industries.rs.  A return is a *)
(* whole number of percent; a multiplier is counted in thousandths, which  *)
(* holds 1 + (0.3 a + 0.4 b + 0.2 c + 0.1 d) / 100 exactly, and a relative *)
(* strength is kept as the ratio of two multipliers.                       *)

\* faulty variant of Multiplier: the 3M return has no weight
MultiplierWithout3M(p) == 1000 + 3 * p.perf_1m + 2 * p.perf_6m + p.perf_1y

Multiplier(p) == 1000 + 3 * p.perf_1m + 4 * p.perf_3m + 2 * p.perf_6m + p.perf_1y

ComputeRs(p, base) == [num |-> Multiplier(p), den |-> Multiplier(base)]

\* a < b for two ratios with positive denominators
RsLess(a, b) == a.num * b.den < b.num * a.den

\* the place of pair x among the sorted pairs: before the first one whose
\* relative strength is smaller (the sort is stable)
InsertByRs(sorted, x) ==
    LET smaller == { i \in 1..Len(sorted) : RsLess(sorted[i].rs, x.rs) }
        at == IF smaller = {} THEN Len(sorted) + 1
              ELSE CHOOSE i \in smaller : \A j \in smaller : i <= j
    IN SubSeq(sorted, 1, at - 1) \o <<x>> \o SubSeq(sorted, at, Len(sorted))

RECURSIVE SortedByRs(_)
\* sorted_by(|a, b| b.1.partial_cmp(&a.1).unwrap())
SortedByRs(pairs) ==
    IF pairs = <<>> THEN <<>>
    ELSE InsertByRs(SortedByRs(Front(pairs)), pairs[Len(pairs)])

\* the industries ordered by their relative strength to the base
RankByRs(industries, base_perf) ==
    LET pairs == [i \in 1..Len(industries) |->
                    [p |-> industries[i], rs |-> ComputeRs(industries[i], base_perf)]]
        sorted == SortedByRs(pairs)
    IN [i \in 1..Len(sorted) |-> sorted[i].p]

MaxRows == 3

PerformanceRow(ticker, m1, m3, m6, y1) ==
    [ticker |-> ticker, perf_1m |-> m1, perf_3m |-> m3, perf_6m |-> m6, perf_1y |-> y1]

\* rows of one industry group that differ in the 3M return, and in the 1M return
IndustryRows ==
    { PerformanceRow("IG", m1, m3, 7, 0 - 2) : m1 \in {0, 20}, m3 \in {0 - 5, 5, 10} }

\* the base ticker's performance: flat, or ten percent over every horizon
BasePerformances == { PerformanceRow("SPY", b, b, b, b) : b \in {0, 10} }

InitRank ==
    /\ ranked \in { [pc |-> "args", industries |-> l, base_perf |-> b, out |-> <<>>] :
                    l \in UNION { [1..k -> IndustryRows] : k \in 0..MaxRows },
                    b \in BasePerformances }
    /\ CacheIdle
    /\ MidIdle
    /\ weekly = NoCall
    /\ joined = NoCall
    /\ race = NoCall
    /\ single = NoCall
    /\ crumb = NoCall
    /\ chart = NoCall

RankIndustries ==
    /\ ranked.pc = "args"
    /\ ranked' = [ranked EXCEPT !.pc = "done",
                                !.out = RankByRs(ranked.industries, ranked.base_perf)]
    /\ UNCHANGED <<cacheVars, midVars, weekly, joined, race, single, crumb, chart>>

SpecRank == InitRank /\ [][RankIndustries]_vars

----------------------------------------------------------------------------
(* Claims about the ranking                                                *)

\* how often row r occurs in a sequence of rows
Occurrences(rows, r) == Cardinality({ i \in 1..Len(rows) : rows[i] = r })

\* the rows agree on everything but perf_3m
DifferOnlyIn3M(rows) ==
    \A i, j \in 1..Len(rows) : [rows[i] EXCEPT !.perf_3m = 0] = [rows[j] EXCEPT !.perf_3m = 0]

AllZero(p) == p.perf_1m = 0 /\ p.perf_3m = 0 /\ p.perf_6m = 0 /\ p.perf_1y = 0

\* C23: for rows that differ only in perf_3m and a benchmark whose four
\* returns are zero, the rows sorted by relative strength descending are
\* the same rows in the order of perf_3m descending.
C23_RankFollows3M ==
    (ranked.pc = "done" /\ DifferOnlyIn3M(ranked.industries) /\ AllZero(ranked.base_perf)) =>
        /\ Len(ranked.out) = Len(ranked.industries)
        /\ \A r \in IndustryRows :
              Occurrences(ranked.out, r) = Occurrences(ranked.industries, r)
        /\ \A k \in 1..(Len(ranked.out) - 1) :
              ranked.out[k].perf_3m >= ranked.out[k + 1].perf_3m

\* 3M returns of 5%, -5% and 10% come out as 10%, 5%, -5%
C23_Witness ==
    /\ ranked.pc = "done"
    /\ AllZero(ranked.base_perf)
    /\ ranked.industries = << PerformanceRow("IG", 0, 5, 7, 0 - 2),
                              PerformanceRow("IG", 0, 0 - 5, 7, 0 - 2),
                              PerformanceRow("IG", 0, 10, 7, 0 - 2) >>
    /\ ranked.out = << PerformanceRow("IG", 0, 10, 7, 0 - 2),
                       PerformanceRow("IG", 0, 5, 7, 0 - 2),
                       PerformanceRow("IG", 0, 0 - 5, 7, 0 - 2) >>

----------------------------------------------------------------------------
(* YFinance::fetch_candles on a given TimeSpec.  The server answers with   *)
(* every bar it has up to the instant of the request, so an answer may     *)
(* carry bars outside the window asked for.                                *)

\* the instant of the request: a Monday's open, or half an hour later
ChartInstants == { At(7, Hm(9, 30)), At(7, Hm(10, 0)) }

\* window ends on bar stamps and between them
WindowInstants(n, hours) ==
    { b.timestamp : b \in ChartBars(n, hours) }
        \cup { b.timestamp + 30 : b \in ChartBars(n, hours) }
        \cup { At(FirstBarDay, 0) }

TimeSpecs(n, hours) ==
    {RangeSpec} \cup
    { IntervalSpec(w[1], w[2]) :
        w \in { x \in WindowInstants(n, hours) \X WindowInstants(n, hours) : x[1] <= x[2] } }

InitChart ==
    /\ \E n \in ChartInstants :
          chart \in { [pc |-> "args", at |-> n, time |-> t, resp |-> r, out |-> NoCall] :
                       t \in TimeSpecs(n, <<Hm(9, 30), Hm(16, 0)>>),
                       r \in Responses(n, <<Hm(9, 30), Hm(16, 0)>>) }
    /\ CacheIdle
    /\ MidIdle
    /\ weekly = NoCall
    /\ joined = NoCall
    /\ ranked = NoCall
    /\ race = NoCall
    /\ single = NoCall
    /\ crumb = NoCall

\* one whole call yf.fetch_candles(symbol, BarSize::Daily, time)
ChartFetch ==
    /\ chart.pc = "args"
    /\ chart' = [chart EXCEPT !.pc = "done",
                              !.out = YfFetchCandles(Ticker, chart.time, chart.at,
                                                     <<Hm(9, 30), Hm(16, 0)>>, chart.resp)]
    /\ UNCHANGED <<cacheVars, midVars, weekly, joined, ranked, race, single, crumb>>

SpecChart == InitChart /\ [][ChartFetch]_vars

----------------------------------------------------------------------------
(* Claims about the provider's explicit interval                           *)

IntervalFetched == chart.pc = "done" /\ chart.out.ok /\ chart.time.kind = "interval"

\* the bars of the answer that carry every quote field
AnsweredBars(n, resp) ==
    { b \in ChartBars(n, <<Hm(9, 30), Hm(16, 0)>>) : b.timestamp \notin resp.nulls }

----------------------------------------------------------------------------
(* Claims about the stale path of fetch_candles                            *)

\* the rows of the ticker that remain once its most recent bar is dropped
RemainingRows(st, ticker) == RowsOf(st, ticker) \ {LatestRow(st, ticker)}

\* C25: a stale-path call makes exactly one provider call, for an explicit
\* interval that ends at the current instant and starts one day before the
\* latest bar remaining after the most recent bar was dropped, or two years
\* before now when no bar remains; with two bars or more cached it never
\* asks for the full range.
C25_StaleFetchesDelta ==
    (Called /\ last.path = "stale") =>
        LET remaining == RemainingRows(last.before, last.ticker)
        IN /\ Len(last.requests) = 1
           /\ last.requests[1].kind = "interval"
           /\ last.requests[1].end = last.at
           /\ remaining = {} => last.requests[1].start = last.at - TwoYears
           /\ remaining # {} =>
                 \E r \in remaining :
                    /\ \A q \in remaining : q.ds <= r.ds
                    /\ last.requests[1].start = r.ds - OneDay

\* a stale cache of three bars or more: the delta starts a day before the
\* last but one
C25_Witness ==
    /\ Called
    /\ last.path = "stale"
    /\ Cardinality(RowsOf(last.before, last.ticker)) >= 3
    /\ last.requests[1].start > last.at - TwoYears
    /\ last.requests[1].start < LatestRow(last.before, last.ticker).ds - OneDay

\* the timestamps held both by a remaining cached bar and by the delta
Overlap == { r.ds : r \in RemainingRows(last.before, last.ticker) } \cap TimestampsOf(last.delta)

\* C26: after a successful stale-path call, at every timestamp held both by a
\* remaining cached bar and by the fetched delta, the store row and the
\* returned sequence carry the fetched values.
C26_DeltaWinsOverlap ==
    StaleOk =>
        \A ts \in Overlap :
            \E c \in Elems(last.delta) :
               /\ c.timestamp = ts
               /\ \A q \in RowsOf(store, last.ticker) : q.ds = ts => AsCandle(q) = c
               /\ \E q \in RowsOf(store, last.ticker) : q.ds = ts
               /\ \A d \in Elems(last.ret) : d.timestamp = ts => d = c
               /\ \E d \in Elems(last.ret) : d.timestamp = ts

\* an overlapping bar whose cached close was provisional and is now final
C26_Witness ==
    /\ StaleOk
    /\ \E r \in RemainingRows(last.before, last.ticker) :
          /\ r.ds \in Overlap
          /\ r.close = "provisional"
          /\ \E c \in Elems(last.ret) :
                c.timestamp = r.ds /\ c.close = "final"

----------------------------------------------------------------------------
(* Two fetch_candles calls on one ticker, interleaved at their awaits.  A  *)
(* call is suspended at store.get_candles, at yf.fetch_candles, at         *)
(* store.save_candles and at the final store.get_candles; what lies        *)
(* between two awaits touches the call's locals only.  save_candles is one *)
(* transaction.                                                            *)

Callers == {1, 2}

Locals(pc, candles, window, delta, ok, ret) ==
    [pc |-> pc, candles |-> candles, time |-> window, delta |-> delta, ok |-> ok, ret |-> ret]

\* lines 102-128 once the first get_candles has answered: the position the
\* call is suspended at next, or its return
AfterRead(candles, n, hours) ==
    IF candles = <<>>
    THEN Locals("fetch", <<>>, RangeSpec, <<>>, TRUE, <<>>)
    ELSE IF IsUptoDate(candles[Len(candles)].last_updated, n, hours)
         THEN Locals("done", candles, RangeSpec, <<>>, TRUE, candles)
         ELSE Locals("fetch", Front(candles),
                     IntervalSpec(RefetchStart(Front(candles), n), n), <<>>, TRUE, <<>>)

\* lines 104-106 and 125-131 once the provider has answered
AfterFetch(l, r) ==
    IF ~r.ok
    THEN [l EXCEPT !.pc = "done", !.ok = FALSE]
    ELSE [l EXCEPT !.pc = "save", !.delta = r.candles, !.candles = l.candles \o r.candles]

\* faulty variant of ReturnAfterSave: the stale path returns the merged candles
ReturnMerged(l, st, ticker, n) ==
    [l EXCEPT !.pc = "done", !.ret = l.candles]

\* lines 108 and 133: the empty path returns what it fetched, the stale path
\* what the store holds now
ReturnAfterSave(l, st, ticker, n) ==
    IF l.time = RangeSpec
    THEN [l EXCEPT !.pc = "done", !.ret = l.delta]
    ELSE [l EXCEPT !.pc = "done", !.ret = GetCandles(st, ticker, n)]

\* the first session on or after StartDay
RaceDay == CHOOSE d \in StartDay..(StartDay + 2) :
              ~IsWeekend(d) /\ \A e \in StartDay..(d - 1) : IsWeekend(e)

\* the cache of the ticker is stale: filled while the session of RaceDay ran
InitRace ==
    /\ now = At(RaceDay, Hm(10, 0))
    /\ market_hours = <<Hm(9, 30), Hm(16, 0)>>
    /\ store = FetchCandles({}, Ticker, now, market_hours, [ok |-> TRUE, nulls |-> {}]).store
    /\ last = NoCall
    /\ settled = {}
    /\ time = 0
    /\ fresh = "none"
    /\ race = [before |-> store,
               calls |-> [i \in Callers |-> Locals("start", <<>>, RangeSpec, <<>>, TRUE, <<>>)]]
    /\ MidIdle
    /\ weekly = NoCall
    /\ joined = NoCall
    /\ ranked = NoCall
    /\ single = NoCall
    /\ crumb = NoCall
    /\ chart = NoCall

raceIdle == <<market_hours, last, settled, time, fresh, midVars,
              weekly, joined, ranked, single, crumb, chart>>

\* the session of RaceDay closes while the calls run
SessionCloses ==
    /\ now = At(RaceDay, Hm(10, 0))
    /\ now' = At(RaceDay, Hm(17, 0))
    /\ UNCHANGED <<store, race, raceIdle>>

ReadCache ==
    \E i \in Callers :
        /\ race.calls[i].pc = "start"
        /\ race' = [race EXCEPT !.calls[i] =
                        AfterRead(GetCandles(store, Ticker, now), now, market_hours)]
        /\ UNCHANGED <<now, store, raceIdle>>

ProviderAnswers ==
    \E i \in Callers, resp \in Responses(now, market_hours) :
        /\ race.calls[i].pc = "fetch"
        /\ race' = [race EXCEPT !.calls[i] =
                        AfterFetch(race.calls[i],
                                   YfFetchCandles(Ticker, race.calls[i].time, now,
                                                  market_hours, resp))]
        /\ UNCHANGED <<now, store, raceIdle>>

SaveBatch ==
    \E i \in Callers :
        /\ race.calls[i].pc = "save"
        /\ store' = SaveCandles(store, Ticker, race.calls[i].candles)
        /\ race' = [race EXCEPT !.calls[i].pc = "saved"]
        /\ UNCHANGED <<now, raceIdle>>

ReturnCandles ==
    \E i \in Callers :
        /\ race.calls[i].pc = "saved"
        /\ race' = [race EXCEPT !.calls[i] = ReturnAfterSave(race.calls[i], store, Ticker, now)]
        /\ UNCHANGED <<now, store, raceIdle>>

NextRace == SessionCloses \/ ReadCache \/ ProviderAnswers \/ SaveBatch \/ ReturnCandles

SpecRace == InitRace /\ [][NextRace]_vars

----------------------------------------------------------------------------
(* Claims about concurrent refreshes                                       *)

\* the timestamps a call has written to the store
WrittenBy(i) ==
    IF race.calls[i].pc \in {"saved", "done"} /\ race.calls[i].ok
    THEN TimestampsOf(race.calls[i].delta)
    ELSE {}

\* C27: while two calls for one stale ticker interleave, the store holds
\* exactly one row for each (ticker, timestamp) that was cached before or
\* that a call has saved, and a call that has returned candles returned them
\* in strictly ascending order.
C27_ConcurrentRefreshKeepsKeys ==
    race # NoCall =>
        /\ \A r, q \in store : (r.ticker = q.ticker /\ r.ds = q.ds) => r = q
        /\ \A ts \in { r.ds : r \in RowsOf(race.before, Ticker) } \cup UNION { WrittenBy(i) : i \in Callers } :
              \E r \in RowsOf(store, Ticker) : r.ds = ts
        /\ \A i \in Callers :
              (race.calls[i].pc = "done" /\ race.calls[i].ok) => StrictlyAscending(race.calls[i].ret)

\* both calls took the stale path, read the cache before either had saved,
\* fetched different deltas and have returned
C27_Witness ==
    /\ race # NoCall
    /\ \A i \in Callers :
          /\ race.calls[i].pc = "done"
          /\ race.calls[i].ok
          /\ race.calls[i].time # RangeSpec
          /\ race.calls[i].time.end = At(RaceDay, Hm(10, 0))
    /\ race.calls[1].delta # race.calls[2].delta
    /\ race.calls[1].ret # race.calls[2].ret
    /\ RowsOf(store, Ticker) # RowsOf(race.before, Ticker)

----------------------------------------------------------------------------
(* store.rs: Store::load_store.  The static holds, behind an async mutex,  *)
(* a weak reference to the latest instance; instances are numbered in the  *)
(* order of their creation and 0 stands for Weak::new().  A handle is a    *)
(* pair <<task, instance>>: the task holds an Arc of that instance.        *)

MaxTasks == 3

MaxStores == 2

Tasks == 1..MaxTasks

\* the instances that some handle keeps alive
Alive(handles) == { h[2] : h \in handles }

\* weak.upgrade(): the instance, or 0 for None
Upgrade(weak, handles) == IF weak \in Alive(handles) THEN weak ELSE 0

\* faulty variant of MayLock: the static's mutex is never waited for
MayLockAlways(lock) == TRUE

\* INSTANCE.lock().await returns once no task holds the guard
MayLock(lock) == lock = 0

Returned(task, instance, created, before) ==
    [task |-> task, instance |-> instance, created |-> created, before |-> before]

InitSingle ==
    /\ single = [lock |-> 0, weak |-> 0, count |-> 0, handles |-> {},
                 pc |-> [t \in Tasks |-> "idle"], returned |-> NoCall]
    /\ CacheIdle
    /\ MidIdle
    /\ weekly = NoCall
    /\ joined = NoCall
    /\ ranked = NoCall
    /\ race = NoCall
    /\ crumb = NoCall
    /\ chart = NoCall

singleIdle == <<cacheVars, midVars, weekly, joined, ranked, race, crumb, chart>>

\* a task calls Store::load_store() and awaits the static's mutex
CallLoadStore ==
    \E t \in Tasks :
        /\ single.pc[t] = "idle"
        /\ single' = [single EXCEPT !.pc[t] = "lock"]
        /\ UNCHANGED singleIdle

\* lines 28-31: the guard is taken and the weak reference upgraded; a live
\* instance is returned at once, otherwise the task goes on to initialise
\* with the guard held
LoadStore ==
    \E t \in Tasks :
        /\ single.pc[t] = "lock"
        /\ MayLock(single.lock)
        /\ LET arc == Upgrade(single.weak, single.handles)
           IN IF arc # 0
              THEN single' = [single EXCEPT
                                 !.handles = @ \cup {<<t, arc>>},
                                 !.pc[t] = "idle",
                                 !.returned = Returned(t, arc, FALSE, Alive(single.handles))]
              ELSE single' = [single EXCEPT !.lock = t, !.pc[t] = "init"]
        /\ UNCHANGED singleIdle

\* lines 33-63: pool, migrations and eviction are done; the new instance
\* is stored in the static and returned, and the guard is released
Initialised ==
    \E t \in Tasks :
        /\ single.pc[t] = "init"
        /\ single.count < MaxStores
        /\ single' = [single EXCEPT
                          !.count = @ + 1,
                          !.weak = single.count + 1,
                          !.handles = @ \cup {<<t, single.count + 1>>},
                          !.lock = 0,
                          !.pc[t] = "idle",
                          !.returned = Returned(t, single.count + 1, TRUE, Alive(single.handles))]
        /\ UNCHANGED singleIdle

\* lines 45-60: one of the three steps fails, the error is returned and the
\* guard released with the static as it was
InitialiseFails ==
    \E t \in Tasks :
        /\ single.pc[t] = "init"
        /\ single' = [single EXCEPT
                          !.lock = 0,
                          !.pc[t] = "idle",
                          !.returned = Returned(t, 0, FALSE, Alive(single.handles))]
        /\ UNCHANGED singleIdle

\* a task drops its handles
DropStore ==
    \E h \in single.handles :
        /\ single' = [single EXCEPT !.handles = @ \ {h}]
        /\ UNCHANGED singleIdle

NextSingle == CallLoadStore \/ LoadStore \/ Initialised \/ InitialiseFails \/ DropStore

SpecSingle == InitSingle /\ [][NextSingle]_vars

----------------------------------------------------------------------------
(* Claims about the store singleton                                        *)

\* C28: at most one Store instance is alive; a load_store that completes
\* while a handle is held returns the held instance and creates nothing; at
\* most one task is inside the initialisation; an instance is created only
\* when no handle to an earlier one is held.
C28_OneStoreAlive ==
    single # NoCall =>
        /\ Cardinality(Alive(single.handles)) <= 1
        /\ Cardinality({ t \in Tasks : single.pc[t] = "init" }) <= 1
        /\ (\E t \in Tasks : single.pc[t] = "init") => single.handles = {}
        /\ single.returned # NoCall =>
              /\ single.returned.before # {} =>
                    /\ single.returned.instance \in single.returned.before
                    /\ ~single.returned.created
              /\ single.returned.created => single.returned.before = {}

\* both tasks hold the second instance: the first one was dropped by all,
\* one task initialised again and the other was handed the same instance
C28_Witness ==
    /\ single # NoCall
    /\ single.count = 2
    /\ Cardinality(single.handles) >= 2
    /\ Alive(single.handles) = {2}
    /\ single.returned # NoCall
    /\ ~single.returned.created

----------------------------------------------------------------------------
(* yf.rs: the crumb of one YFinance client.  The cell is a tokio OnceCell: *)
(* get_or_try_init returns the value when the cell is set, and otherwise   *)
(* runs the closure under the cell's single permit; a closure that fails   *)
(* gives the permit back and leaves the cell empty.  "" is the empty cell. *)

MaxFetchers == 3

MaxCalls == 2

Fetchers == 1..MaxFetchers

\* what the crumb endpoint may answer: a crumb, an empty or Unauthorized
\* body, or a transport error
CrumbAnswers == { "crumb-a", "crumb-b", "", "Unauthorized", "error" }

\* lines 261-264 and the two `?` before them
CrumbOk(answer) == answer \notin { "", "Unauthorized", "error" }

\* faulty variant of MayInit: the closure runs without the cell's permit
MayInitAlways(permit) == TRUE

\* the permit of the cell is free
MayInit(permit) == permit = 0

InitCrumb ==
    /\ crumb = [cell |-> "", permit |-> 0,
                pc |-> [f \in Fetchers |-> "idle"],
                calls |-> [f \in Fetchers |-> 0],
                sent |-> <<>>, stored |-> <<>>, used |-> {}]
    /\ CacheIdle
    /\ MidIdle
    /\ weekly = NoCall
    /\ joined = NoCall
    /\ ranked = NoCall
    /\ race = NoCall
    /\ single = NoCall
    /\ chart = NoCall

crumbIdle == <<cacheVars, midVars, weekly, joined, ranked, race, single, chart>>

\* fetch_ticker_info / fetch_candles begins: self.crumb().await
CallFetch ==
    \E f \in Fetchers :
        /\ crumb.pc[f] = "idle"
        /\ crumb.calls[f] < MaxCalls
        /\ crumb' = [crumb EXCEPT !.pc[f] = "crumb", !.calls[f] = @ + 1]
        /\ UNCHANGED crumbIdle

\* the cell is set: the stored crumb goes into the url of the data request
ReuseCrumb ==
    \E f \in Fetchers :
        /\ crumb.pc[f] = "crumb"
        /\ crumb.cell # ""
        /\ crumb' = [crumb EXCEPT !.pc[f] = "idle", !.used = @ \cup {crumb.cell}]
        /\ UNCHANGED crumbIdle

\* the cell is empty and its permit free: the closure sends the crumb request
RequestCrumb ==
    \E f \in Fetchers :
        /\ crumb.pc[f] = "crumb"
        /\ crumb.cell = ""
        /\ MayInit(crumb.permit)
        /\ crumb' = [crumb EXCEPT !.pc[f] = "getcrumb", !.permit = f,
                                  !.sent = Append(@, crumb.stored # <<>>)]
        /\ UNCHANGED crumbIdle

\* the crumb endpoint answers: a crumb is stored and used, anything else
\* fails the call and leaves the cell empty
CrumbAnswered ==
    \E f \in Fetchers, answer \in CrumbAnswers :
        /\ crumb.pc[f] = "getcrumb"
        /\ IF CrumbOk(answer)
           THEN crumb' = [crumb EXCEPT !.pc[f] = "idle", !.permit = 0, !.cell = answer,
                                      !.stored = Append(@, answer),
                                      !.used = @ \cup {answer}]
           ELSE crumb' = [crumb EXCEPT !.pc[f] = "idle", !.permit = 0]
        /\ UNCHANGED crumbIdle

NextCrumb == CallFetch \/ ReuseCrumb \/ RequestCrumb \/ CrumbAnswered

SpecCrumb == InitCrumb /\ [][NextCrumb]_vars

----------------------------------------------------------------------------
(* Claims about the crumb                                                  *)

\* C29: at most one crumb request succeeds; once one has succeeded no crumb
\* request is sent or still awaited, and every call uses the stored crumb.
C29_CrumbObtainedOnce ==
    crumb # NoCall =>
        /\ Len(crumb.stored) <= 1
        /\ \A i \in 1..Len(crumb.sent) : ~crumb.sent[i]
        /\ crumb.stored # <<>> =>
              /\ \A f \in Fetchers : crumb.pc[f] # "getcrumb"
              /\ crumb.cell = crumb.stored[1]
              /\ crumb.used = {crumb.stored[1]}

\* a crumb request failed, a second one succeeded, and all calls of both
\* fetchers went through on that one crumb
C29_Witness ==
    /\ crumb # NoCall
    /\ Len(crumb.sent) = 2
    /\ Len(crumb.stored) = 1
    /\ \A f \in Fetchers : crumb.calls[f] = MaxCalls /\ crumb.pc[f] = "idle"

----------------------------------------------------------------------------
(* Claims about the loop of last_market_close                              *)

\* C30: at every instant the walk ends after examining at most four
\* calendar dates, today and the days before it in turn, and the instant it
\* yields is the market close of the last date examined, a Monday-to-Friday
\* date, and is not after now.
C30_WalkEndsWithinFourDates ==
    fresh # "none" =>
        LET dates == WalkedDates(DateOf(now), now, market_hours)
            close == LastMarketClose(now, market_hours)
        IN /\ Len(dates) \in 1..4
           /\ \A i \in 1..Len(dates) : dates[i] = DateOf(now) - (i - 1)
           /\ close = At(dates[Len(dates)], market_hours[2])
           /\ ~IsWeekend(DateOf(close))
           /\ TimeOfDay(close) = market_hours[2]
           /\ close <= now

\* a Monday before the close: Monday, Sunday, Saturday and Friday are examined
C30_Witness ==
    /\ fresh # "none"
    /\ Weekday(DateOf(now)) = 0
    /\ TimeOfDay(now) < market_hours[1]
    /\ Len(WalkedDates(DateOf(now), now, market_hours)) = 4
    /\ LastMarketClose(now, market_hours) = At(DateOf(now) - 3, market_hours[2])

====
